---------------------------- MODULE Spec2Model ----------------------------
(***************************************************************************)
(* Booking Frequency Analysis (src/app.py): load_data,                     *)
(* create_frequency_table, plot_histogram and the flow of main.            *)
(*                                                                         *)
(* Text is a sequence of one-character strings.  A cell of a text column   *)
(* is [na, v]: na is pandas' missing value.  A timestamp is [na, y, m]:    *)
(* na is NaT.  A Series with the index 1..n is a sequence of length n      *)
(* (label i at 0-based position i-1).                                      *)
(***************************************************************************)
EXTENDS Integers, Sequences, FiniteSets

\* ------------------------------------------------------------------- state
VARIABLES
    pc,      \* "start", "load_failed", "loaded", "reported" (main drew a report), "called"
    file,    \* the uploaded file
    data,    \* what load_data returned (<<>> while there is none)
    msg,     \* the message load_data reported
    args,    \* the arguments of the last create_frequency_table call
    table,   \* the table it returned (<<>> while there is none)
    stats,   \* what the last plot_histogram computed
    first    \* history: the first report of a session, and whether another followed it

vars == << pc, file, data, msg, args, table, stats, first >>

\* ------------------------------------------------------------------ bounds
\* Rows of an uploaded sheet.
MaxRows == 3
\* Rows of the sheet of a session of repeated reports.
SessionRows == 2
\* Largest "Max Upper Bound" the user enters (the widget's minimum is 1).
MaxUpperInput == 2

\* ---------------------------------------------------------------- text
\* The characters used, in code-point order (Python compares str by code point).
Ascii ==
    << " ", "-", "0", "1", "2", "3", "4", "5", "6", "7", "8", "9", ">",
       "A", "B", "C", "D", "E", "F", "G", "H", "I", "J", "K", "L", "M",
       "N", "O", "P", "Q", "R", "S", "T", "U", "V", "W", "X", "Y", "Z",
       "a", "b", "c", "d", "e", "f", "g", "h", "i", "j", "k", "l", "m",
       "n", "o", "p", "q", "r", "s", "t", "u", "v", "w", "x", "y", "z" >>

Chars == {Ascii[i] : i \in DOMAIN Ascii}

Ord == [c \in Chars |-> CHOOSE i \in DOMAIN Ascii : Ascii[i] = c]

FirstUpper == Ord["A"]
FirstLower == Ord["a"]

\* re.IGNORECASE on ASCII text: letters compare by their lower-case form.
CaseFold == [c \in Chars |->
    IF Ord[c] >= FirstUpper /\ Ord[c] < FirstUpper + 26
    THEN Ascii[Ord[c] - FirstUpper + FirstLower]
    ELSE c]

\* The characters as compared by str.contains(..., case=False).
FoldedChar(c) == CaseFold[c]

\* Mutant of StrContains: case=False is left out, the letters compare as written.
StrContainsCaseSensitive(s, pat) ==
    \E i \in 0..(Len(s) - Len(pat)) :
        \A j \in 1..Len(pat) : s[i + j] = pat[j]

\* Series.str.contains(pat, case=False) on one string: pat occurs somewhere in s.
StrContains(s, pat) ==
    \E i \in 0..(Len(s) - Len(pat)) :
        \A j \in 1..Len(pat) : FoldedChar(s[i + j]) = FoldedChar(pat[j])

RECURSIVE StrLess(_, _)
\* Python's a < b on str.
StrLess(a, b) ==
    IF b = <<>> THEN FALSE
    ELSE IF a = <<>> THEN TRUE
    ELSE IF Ord[Head(a)] # Ord[Head(b)] THEN Ord[Head(a)] < Ord[Head(b)]
    ELSE StrLess(Tail(a), Tail(b))

\* Python's a <= b on str.
StrLeq(a, b) == a = b \/ StrLess(a, b)

Digit(d) == Ascii[Ord["0"] + d]

\* ------------------------------------------------------------- cells
NA == [na |-> TRUE, v |-> <<>>]
Text(s) == [na |-> FALSE, v |-> s]
NaT == [na |-> TRUE, y |-> 0, m |-> 0]
Timestamp(y, m) == [na |-> FALSE, y |-> y, m |-> m]

\* A raw cell of the date column: a date as written, or other text.
RawDate(y, m, d) == [isDate |-> TRUE, y |-> y, m |-> m, d |-> d]
RawText == [isDate |-> FALSE, y |-> 0, m |-> 0, d |-> 0]

IsLeap(y) == (y % 4 = 0 /\ y % 100 # 0) \/ y % 400 = 0

DaysInMonth(y, m) ==
    IF m = 2 THEN (IF IsLeap(y) THEN 29 ELSE 28)
    ELSE IF m \in {4, 6, 9, 11} THEN 30 ELSE 31

\* pd.to_datetime(..., errors="coerce") on one cell: what is no date becomes NaT.
to_datetime(raw) ==
    IF raw.isDate /\ raw.m \in 1..12 /\ raw.d >= 1 /\ raw.d <= DaysInMonth(raw.y, raw.m)
    THEN Timestamp(raw.y, raw.m)
    ELSE NaT

\* str(pd.NaT)
NaTStr == << "N", "a", "T" >>

\* .dt.to_period("M").astype(str) on one cell: "YYYY-MM", and "NaT" for NaT.
PeriodStr(ts) ==
    IF ts.na THEN NaTStr
    ELSE << Digit(ts.y \div 1000), Digit((ts.y \div 100) % 10),
            Digit((ts.y \div 10) % 10), Digit(ts.y % 10), "-",
            Digit(ts.m \div 10), Digit(ts.m % 10) >>


\* ------------------------------------------------------------- helpers
RECURSIVE SumSeq(_)
\* Series.sum()
SumSeq(s) == IF s = <<>> THEN 0 ELSE Head(s) + SumSeq(Tail(s))

RECURSIVE SortedSeq(_)
\* The integers of S in ascending order (groupby sorts its keys).
SortedSeq(S) ==
    IF S = {} THEN <<>>
    ELSE LET lo == CHOOSE x \in S : \A y \in S : x <= y
         IN <<lo>> \o SortedSeq(S \ {lo})

\* A frame's rows kept where keep[i] holds, in order (boolean indexing).
RECURSIVE SelectRows(_, _)
SelectRows(rows, keep) ==
    IF rows = <<>> THEN <<>>
    ELSE (IF Head(keep) THEN <<Head(rows)>> ELSE <<>>)
         \o SelectRows(Tail(rows), Tail(keep))

\* s[k:] with an integer k: a slice of a Series is taken by position (0-based),
\* whatever the index holds.
PositionalSliceFrom(s, k) ==
    IF k >= Len(s) THEN <<>> ELSE [j \in 1..(Len(s) - k) |-> s[j + k]]

\* ------------------------------------------------------------- load_data
ErrLoading == "Error loading f"
ErrNoColumn == "Required column 'Start_Date_time' not found"
ErrNoDates == "Could not parse any dates in 'Start_Date_time'"

\* What load_data returns (none: it returned None) and the message it reported.
Loaded(rows) == [none |-> FALSE, rows |-> rows, msg |-> ""]
NotLoaded(message) == [none |-> TRUE, rows |-> <<>>, msg |-> message]

\* data["Start_Date_time"] = pd.to_datetime(data["Start_Date_time"], errors="coerce")
ParseDates(rows) ==
    [i \in DOMAIN rows |->
        [rows[i] EXCEPT !.Start_Date_time = to_datetime(rows[i].Start_Date_time)]]

AllNaT(rows) == \A i \in DOMAIN rows : rows[i].Start_Date_time.na

\* Mutant of load_data: isna().any() for isna().all(), one bad date fails the load.
load_data_any(f) ==
    IF ~f.readable THEN NotLoaded(ErrLoading)
    ELSE IF "Start_Date_time" \notin f.columns THEN NotLoaded(ErrNoColumn)
    ELSE LET df == ParseDates(f.rows)
         IN IF AllNaT(df) \/ \E i \in DOMAIN df : df[i].Start_Date_time.na
            THEN NotLoaded(ErrNoDates) ELSE Loaded(df)

load_data(f) ==
    IF ~f.readable THEN NotLoaded(ErrLoading)
    ELSE IF "Start_Date_time" \notin f.columns THEN NotLoaded(ErrNoColumn)
    ELSE LET df == ParseDates(f.rows)
         IN IF AllNaT(df) THEN NotLoaded(ErrNoDates) ELSE Loaded(df)

\* ------------------------------------------------ create_frequency_table
SelfPractice == << "S", "e", "l", "f", " ", "P", "r", "a", "c", "t", "i", "c", "e" >>

\* if period: / elif start_period and end_period: (None and "" are both <<>>)
Truthy(token) == token # <<>>

\* mask: the rows the period filter keeps.
PeriodMask(df, period, start_period, end_period) ==
    [i \in DOMAIN df |->
        LET periods == PeriodStr(df[i].Start_Date_time)
        IN IF Truthy(period) THEN periods = period
           ELSE IF Truthy(start_period) /\ Truthy(end_period)
                THEN StrLeq(start_period, periods) /\ StrLeq(periods, end_period)
                ELSE TRUE]

\* data["Class_Name"].str.contains("Self Practice", case=False, na=False) on one cell
IsSelfPractice(cell) == IF cell.na THEN FALSE ELSE StrContains(cell.v, SelfPractice)

\* Mutant of FilterRows: the mask outlives the call, so the rows must pass the
\* period filter of the call before as well.
FilterRowsKeepingMask(df, period, start_period, end_period) ==
    LET mask == PeriodMask(df, period, start_period, end_period)
        kept == PeriodMask(df, args.period, args.start_period, args.end_period)
    IN SelectRows(df, [i \in DOMAIN df |->
                            mask[i] /\ kept[i] /\ ~IsSelfPractice(df[i].Class_Name)])

\* data_filtered = data[mask & ~data["Class_Name"].str.contains(...)]
FilterRows(df, period, start_period, end_period) ==
    LET mask == PeriodMask(df, period, start_period, end_period)
    IN SelectRows(df, [i \in DOMAIN df |->
                            mask[i] /\ ~IsSelfPractice(df[i].Class_Name)])

\* booking_frequencies = data_filtered.groupby("Id_Person").size()
BookingFrequencies(data_filtered) ==
    [p \in {data_filtered[i].Id_Person : i \in DOMAIN data_filtered} |->
        Cardinality({i \in DOMAIN data_filtered : data_filtered[i].Id_Person = p})]

\* booking_frequencies.value_counts(): booking count -> number of people
ValueCounts(bf) ==
    [c \in {bf[p] : p \in DOMAIN bf} |-> Cardinality({p \in DOMAIN bf : bf[p] = c})]

\* freq_counts = pd.Series(0, index=range(1, max_upper + 2)); freq_counts.update(...)
\* update() writes only the labels freq_counts already has.
FreqCounts(bf, max_upper) ==
    LET vc == ValueCounts(bf)
    IN [i \in 1..(max_upper + 1) |-> IF i \in DOMAIN vc THEN vc[i] ELSE 0]

\* The "#Students" column.
StudentsColumn(bf, max_upper) ==
    LET freq_counts == FreqCounts(bf, max_upper)
    IN [i \in 1..(max_upper + 1) |->
          IF i <= max_upper THEN freq_counts[i]
          ELSE SumSeq(PositionalSliceFrom(freq_counts, max_upper + 1))]

\* A cell of the "Freq" column: the int n, or the str ">n".
FreqInt(n) == [isStr |-> FALSE, n |-> n]
FreqLabel(n) == [isStr |-> TRUE, n |-> n]

\* Mutant of FreqRange: range(0, max_upper), the rows start at 0.
FreqRangeFromZero(max_upper) ==
    [i \in 1..(max_upper + 1) |->
        IF i <= max_upper THEN FreqInt(i - 1) ELSE FreqLabel(max_upper)]

\* freq_range = list(range(1, max_upper + 1)) + [f">{max_upper}"]
FreqRange(max_upper) ==
    [i \in 1..(max_upper + 1) |-> IF i <= max_upper THEN FreqInt(i) ELSE FreqLabel(max_upper)]

\* Mutant of CumSum: the running total leaves the row itself out.
CumSumExclusive(col) == [i \in DOMAIN col |-> SumSeq(SubSeq(col, 1, i - 1))]

\* table["#Students"].cumsum()
CumSum(col) == [i \in DOMAIN col |-> SumSeq(SubSeq(col, 1, i))]

\* .groupby("Id_Person")["FirstName"].first() for one person
FirstNameOf(data_filtered, p) ==
    data_filtered[CHOOSE i \in DOMAIN data_filtered :
        /\ data_filtered[i].Id_Person = p
        /\ \A j \in 1..(i - 1) : data_filtered[j].Id_Person # p].FirstName

\* get_student_details(freq): the "name : id" items of the joined string, in order.
get_student_details(data_filtered, bf, max_upper, freq) ==
    LET who == {p \in DOMAIN bf : IF freq.isStr THEN bf[p] > max_upper ELSE bf[p] = freq.n}
        ids == SortedSeq(who)
    IN [k \in DOMAIN ids |-> << FirstNameOf(data_filtered, ids[k]), ids[k] >>]

create_frequency_table(df, period, start_period, end_period, max_upper) ==
    LET data_filtered == FilterRows(df, period, start_period, end_period)
        bf == BookingFrequencies(data_filtered)
        freq == FreqRange(max_upper)
        students == StudentsColumn(bf, max_upper)
        cum == CumSum(students)
    IN [i \in 1..(max_upper + 1) |->
          [Freq |-> freq[i],
           Students |-> students[i],
           CumFromStart |-> cum[i],
           CumToEnd |-> SumSeq(students) - cum[i] + students[i],
           Details |-> get_student_details(data_filtered, bf, max_upper, freq[i])]]

\* --------------------------------------------------------- plot_histogram
NaN == [nan |-> TRUE, num |-> 0, den |-> 0]
Ratio(num, den) == [nan |-> FALSE, num |-> num, den |-> den]

\* str(x).isdigit() on a cell of "Freq"
IsDigitStr(freq) == ~freq.isStr /\ freq.n >= 0

RECURSIVE Repeat(_, _)
Repeat(x, n) == IF n <= 0 THEN <<>> ELSE <<x>> \o Repeat(x, n - 1)

RECURSIVE Expand(_)
\* student_counts.loc[student_counts.index.repeat(student_counts["#Students"])]["Freq"]
Expand(student_counts) ==
    IF student_counts = <<>> THEN <<>>
    ELSE Repeat(Head(student_counts).Freq.n, Head(student_counts).Students)
         \o Expand(Tail(student_counts))

\* Mutant of Mean: an empty Series has the mean 0.
MeanZeroWhenEmpty(xs) == IF xs = <<>> THEN Ratio(0, 1) ELSE Ratio(SumSeq(xs), Len(xs))

\* Series.mean(): NaN on an empty Series
Mean(xs) == IF xs = <<>> THEN NaN ELSE Ratio(SumSeq(xs), Len(xs))

\* Series.median() of an ascending Series: NaN on an empty one
Median(xs) ==
    IF xs = <<>> THEN NaN
    ELSE IF Len(xs) % 2 = 1 THEN Ratio(xs[(Len(xs) + 1) \div 2], 1)
    ELSE Ratio(xs[Len(xs) \div 2] + xs[Len(xs) \div 2 + 1], 2)

\* The rows plot_histogram keeps: those whose Freq is all digits.
NumericRows(tbl) ==
    SelectRows(tbl, [i \in DOMAIN tbl |-> IsDigitStr(tbl[i].Freq)])

\* mean_val and median_val of plot_histogram, and the expanded values they are of.
plot_histogram(tbl) ==
    LET expanded == Expand(NumericRows(tbl))
    IN [expanded |-> expanded, mean_val |-> Mean(expanded), median_val |-> Median(expanded)]


\* ------------------------------------------------------------ the inputs
Yoga == << "Y", "o", "g", "a" >>
SelfPracticeRoomA ==
    << "S", "e", "l", "f", " ", "P", "r", "a", "c", "t", "i", "c", "e", " ",
       "R", "o", "o", "m", " ", "A" >>
MySELFpractice ==
    << "m", "y", " ", "S", "E", "L", "F", " ", "p", "r", "a", "c", "t", "i", "c", "e" >>

Row(id, name, class, raw) ==
    [Id_Person |-> id, FirstName |-> name, Class_Name |-> class, Start_Date_time |-> raw]

\* The rows a sheet is made of: two people, two months (December 2023 and
\* January 2024), a date that does not exist, text that is no date, the
\* class names above and a missing class name.
SheetRows ==
    { Row(1, "Ann", Text(Yoga), RawDate(2023, 12, 20)),
      Row(1, "Bob", Text(Yoga), RawDate(2024, 1, 5)),
      Row(1, "Ann", Text(SelfPracticeRoomA), RawDate(2024, 1, 12)),
      Row(1, "Ann", Text(MySELFpractice), RawDate(2023, 12, 21)),
      Row(1, "Ann", NA, RawDate(2024, 1, 20)),
      Row(1, "Ann", Text(Yoga), RawDate(2024, 2, 30)),
      Row(2, "Cy", Text(Yoga), RawText),
      Row(2, "Cy", Text(Yoga), RawDate(2024, 1, 5)) }

SeqsUpTo(S, n) == UNION {[1..k -> S] : k \in 0..n}

AllColumns == {"Id_Person", "FirstName", "Class_Name", "Start_Date_time"}

\* A row of a sheet that has no "Start_Date_time" column.
WithoutDate(row) == [c \in AllColumns \ {"Start_Date_time"} |-> row[c]]

Unreadable == [readable |-> FALSE, columns |-> {}, rows |-> <<>>]

\* Class_Name is a column of text: read_excel gives it the object dtype, which
\* .str needs, when some cell of it holds text.
TextColumn(rows) == rows = <<>> \/ \E i \in DOMAIN rows : ~rows[i].Class_Name.na

\* The files a user may upload.
Files ==
    {Unreadable}
    \cup {[readable |-> TRUE, columns |-> AllColumns, rows |-> rows] :
            rows \in {r \in SeqsUpTo(SheetRows, MaxRows) : TextColumn(r)}}
    \cup {[readable |-> TRUE, columns |-> AllColumns \ {"Start_Date_time"}, rows |-> rows] :
            rows \in {r \in SeqsUpTo({WithoutDate(x) : x \in SheetRows}, MaxRows) :
                        TextColumn(r)}}

\* The sheets of the sessions of repeated reports: every date is one.
SessionSheetRows ==
    { Row(1, "Ann", Text(Yoga), RawDate(2023, 12, 20)),
      Row(1, "Bob", Text(SelfPracticeRoomA), RawDate(2024, 1, 12)),
      Row(2, "Cy", Text(Yoga), RawDate(2024, 1, 5)) }

SessionFiles ==
    {[readable |-> TRUE, columns |-> AllColumns, rows |-> rows] :
        rows \in SeqsUpTo(SessionSheetRows, SessionRows) \ {<<>>}}

\* ------------------------------------------------------------------ main
None == <<>>
NoArgs == [period |-> None, start_period |-> None, end_period |-> None, max_upper |-> 0]
NoStats == [expanded |-> <<>>, mean_val |-> NaN, median_val |-> NaN]
NoReport == [set |-> FALSE, between |-> FALSE, args |-> NoArgs, table |-> <<>>]

Init ==
    /\ pc = "start"
    /\ file = Unreadable
    /\ data = <<>>
    /\ msg = ""
    /\ args = NoArgs
    /\ table = <<>>
    /\ stats = NoStats
    /\ first = NoReport

\* main, lines 90-93: a file is uploaded and loaded.
Upload ==
    /\ pc = "start"
    /\ \E f \in Files :
        LET r == load_data(f)
        IN /\ file' = f
           /\ data' = r.rows
           /\ msg' = r.msg
           /\ pc' = IF r.none THEN "load_failed" ELSE "loaded"
    /\ UNCHANGED << args, table, stats, first >>

\* periods = sorted(data["Start_Date_time"].dt.to_period("M").astype(str).unique())
\* (a selectbox offers every element, so the order does not matter here)
PeriodChoices(d) == {PeriodStr(d[i].Start_Date_time) : i \in DOMAIN d}

\* st.number_input("Max Upper Bound:", min_value=1, ...)
MaxUpperChoices == 1..MaxUpperInput

\* One call of create_frequency_table on the frame d.
Call(d, period, start_period, end_period, max_upper) ==
    /\ args' = [period |-> period, start_period |-> start_period,
                end_period |-> end_period, max_upper |-> max_upper]
    /\ table' = create_frequency_table(d, period, start_period, end_period, max_upper)

\* main, lines 103-106 and 117-119
Monthly ==
    /\ pc = "loaded"
    /\ first = NoReport
    /\ \E period \in PeriodChoices(data), max_upper \in MaxUpperChoices :
        Call(data, period, None, None, max_upper)
    /\ stats' = plot_histogram(table')
    /\ pc' = "reported"
    /\ UNCHANGED << file, data, msg, first >>

\* main, lines 107-115 and 117-119
Range ==
    /\ pc = "loaded"
    /\ first = NoReport
    /\ \E start_period \in PeriodChoices(data), end_period \in PeriodChoices(data),
          max_upper \in MaxUpperChoices :
        Call(data, None, start_period, end_period, max_upper)
    /\ stats' = plot_histogram(table')
    /\ pc' = "reported"
    /\ UNCHANGED << file, data, msg, first >>

\* create_frequency_table called with neither a period nor both ends of a range
\* (the defaults of its parameters).
Unfiltered ==
    /\ pc = "loaded"
    /\ \E start_period \in PeriodChoices(data) \cup {None},
          end_period \in PeriodChoices(data) \cup {None},
          max_upper \in MaxUpperChoices :
        /\ ~(Truthy(start_period) /\ Truthy(end_period))
        /\ Call(data, None, start_period, end_period, max_upper)
    /\ stats' = NoStats
    /\ pc' = "called"
    /\ UNCHANGED << file, data, msg, first >>

Next == Upload \/ Monthly \/ Range \/ Unfiltered

\* One run of main on an uploaded file.
Spec == Init /\ [][Next]_vars

\* --------------------------------------------------------------- sessions
\* Every change of a widget runs main again on the same uploaded file:
\* load_data, then one report with the widgets' values.

\* The history of a session: its first report, and whether a report with
\* other arguments has followed it.
Remember(a, t) ==
    IF ~first.set THEN [set |-> TRUE, between |-> FALSE, args |-> a, table |-> t]
    ELSE [first EXCEPT !.between = @ \/ a # first.args]

InitSession ==
    /\ file \in SessionFiles
    /\ pc = "loaded"
    /\ data = load_data(file).rows
    /\ msg = load_data(file).msg
    /\ args = NoArgs
    /\ table = <<>>
    /\ stats = NoStats
    /\ first = NoReport

\* main, lines 92-93: the run loads the file again.
Reload ==
    /\ pc \in {"loaded", "reported"}
    /\ ~load_data(file).none
    /\ data' = load_data(file).rows
    /\ msg' = load_data(file).msg
    /\ UNCHANGED file

\* main, lines 92-106 and 117-119, run again
MonthlyRun ==
    /\ Reload
    /\ \E period \in PeriodChoices(data'), max_upper \in MaxUpperChoices :
        Call(data', period, None, None, max_upper)
    /\ stats' = plot_histogram(table')
    /\ pc' = "reported"
    /\ first' = Remember(args', table')

\* main, lines 92-101, 107-115 and 117-119, run again
RangeRun ==
    /\ Reload
    /\ \E start_period \in PeriodChoices(data'), end_period \in PeriodChoices(data'),
          max_upper \in MaxUpperChoices :
        Call(data', None, start_period, end_period, max_upper)
    /\ stats' = plot_histogram(table')
    /\ pc' = "reported"
    /\ first' = Remember(args', table')

NextSession == MonthlyRun \/ RangeRun

SpecSession == InitSession /\ [][NextSession]_vars

\* ------------------------------------------------------- what the claims say
\* The class names of the sheets that hold "self practice" in some letter case.
NamesSelfPractice(cell) == ~cell.na /\ cell.v \in {SelfPracticeRoomA, MySELFpractice}

\* The raw dates of the sheets that are dates of the calendar.
IsCalendarDate(raw) ==
    raw \in { RawDate(2023, 12, 20), RawDate(2023, 12, 21), RawDate(2024, 1, 5),
              RawDate(2024, 1, 12), RawDate(2024, 1, 20) }

\* The period key of a row is the single period, or within the inclusive range.
InFilter(key, a) ==
    IF Truthy(a.period) THEN key = a.period
    ELSE StrLeq(a.start_period, key) /\ StrLeq(key, a.end_period)

\* A qualifying record: a timestamp that is not null, a period the filter
\* takes, a class name that does not hold "self practice".
Qualifies(row, a) ==
    /\ ~row.Start_Date_time.na
    /\ InFilter(PeriodStr(row.Start_Date_time), a)
    /\ ~NamesSelfPractice(row.Class_Name)

QualifyingCount(d, a, p) ==
    Cardinality({i \in DOMAIN d : Qualifies(d[i], a) /\ d[i].Id_Person = p})

QualifyingPeople(d, a) == {d[i].Id_Person : i \in {j \in DOMAIN d : Qualifies(d[j], a)}}

StudentsOf(t) == [i \in DOMAIN t |-> t[i].Students]

TableOf(d, a) ==
    create_frequency_table(d, a.period, a.start_period, a.end_period, a.max_upper)

HasTable == pc \in {"reported", "called"}

\* The filter's tokens are keys of months (the key of the null timestamps,
\* which main offers too, is the matter of C4).
MonthTokens(a) == NaTStr \notin {a.period, a.start_period, a.end_period}

\* C1: under a single-period or range filter, the sum of #Students over all
\* rows is the number of distinct people with at least one qualifying record.
C1_EveryQualifyingPersonInOneBucket ==
    (pc = "reported" /\ MonthTokens(args)) =>
        SumSeq(StudentsOf(table)) = Cardinality(QualifyingPeople(data, args))

\* C2: #Students of the overflow row is the number of people whose qualifying
\* booking count is greater than max_upper, and the number of people its
\* Details lists.
C2_OverflowRowCountsPeopleAboveCap ==
    (pc = "reported" /\ MonthTokens(args)) =>
        LET last == table[Len(table)]
        IN /\ last.Students =
                Cardinality({p \in QualifyingPeople(data, args) :
                                QualifyingCount(data, args, p) > args.max_upper})
           /\ last.Students = Len(last.Details)

RECURSIVE PrefixSum(_, _)
PrefixSum(col, i) == IF i = 0 THEN 0 ELSE col[i] + PrefixSum(col, i - 1)

\* C3: in every table, "Cum 1->"[i] is the sum of #Students over rows 1..i (so
\* it never decreases and ends at the total), and "Cum 1->"[i] + "Cum ->End"[i]
\* is the total plus #Students[i].
C3_CumulativeColumns ==
    HasTable =>
        LET students == StudentsOf(table)
            total == PrefixSum(students, Len(students))
        IN /\ \A i \in DOMAIN table :
                /\ table[i].CumFromStart = PrefixSum(students, i)
                /\ i > 1 => table[i - 1].CumFromStart <= table[i].CumFromStart
                /\ table[i].CumFromStart + table[i].CumToEnd = total + students[i]
           /\ table[Len(table)].CumFromStart = total

\* Two rows of the table hold people, so the running total grows twice.
C3_Witness ==
    /\ pc = "reported"
    /\ Len(table) = 3
    /\ table[1].Students = 1
    /\ table[2].Students = 1
    /\ table[2].CumFromStart = 2

\* C4: with the period tokens main offers, a record whose timestamp is null
\* matches no filter and adds nothing to the table: the table is the one of
\* the records whose timestamp is not null.
C4_NullTimestampNeverCounts ==
    pc = "reported" =>
        /\ \A i \in DOMAIN data :
              data[i].Start_Date_time.na =>
                  ~PeriodMask(data, args.period, args.start_period, args.end_period)[i]
        /\ table = TableOf(SelectRows(data,
                        [i \in DOMAIN data |-> ~data[i].Start_Date_time.na]), args)

\* C5: called with no period and not both ends of a range,
\* create_frequency_table returns no table.
C5_NoFilterGivesNoTable == pc = "called" => table = <<>>

\* The people of bucket r when a person's bookings are the rows the period
\* filter keeps, but for those whose class name holds "self practice".
KeptCount(p) ==
    Cardinality({i \in DOMAIN data :
        /\ data[i].Id_Person = p
        /\ PeriodMask(data, args.period, args.start_period, args.end_period)[i]
        /\ ~NamesSelfPractice(data[i].Class_Name)})

NothingKept == \A p \in {data[i].Id_Person : i \in DOMAIN data} : KeptCount(p) = 0

C8_LoadOutcome ==
    pc \in {"load_failed", "loaded"} =>
        LET fails ==
                \/ ~file.readable
                \/ "Start_Date_time" \notin file.columns
                \/ \A i \in DOMAIN file.rows : ~IsCalendarDate(file.rows[i].Start_Date_time)
        IN /\ pc = "load_failed" <=> fails
           /\ pc = "load_failed" => data = <<>> /\ msg # ""
           /\ pc = "loaded" =>
                /\ msg = ""
                /\ Len(data) = Len(file.rows)
                /\ \A i \in DOMAIN data :
                      LET raw == file.rows[i].Start_Date_time
                      IN data[i] = [file.rows[i] EXCEPT !.Start_Date_time =
                            IF IsCalendarDate(raw) THEN [na |-> FALSE, y |-> raw.y, m |-> raw.m]
                            ELSE [na |-> TRUE, y |-> 0, m |-> 0]]

\* A sheet with a row that parses and one that does not is loaded whole.
C8_Witness ==
    /\ pc = "loaded"
    /\ Len(data) = Len(file.rows)
    /\ \E i, j \in DOMAIN data :
        data[i].Start_Date_time.na /\ ~data[j].Start_Date_time.na

\* C9: the values plot_histogram takes the mean and median of are #Students
\* copies of Freq for each row 1..max_upper and nothing for the overflow row;
\* when there are none, the mean and the median are NaN, and otherwise they
\* are the mean and a median of those values.
C9_ChartStatistics ==
    pc = "reported" =>
        LET xs == stats.expanded
        IN /\ \A f \in 1..args.max_upper :
                Cardinality({k \in DOMAIN xs : xs[k] = f}) = table[f].Students
           /\ \A k \in DOMAIN xs : xs[k] \in 1..args.max_upper
           /\ xs = <<>> => stats.mean_val.nan /\ stats.median_val.nan
           /\ xs # <<>> =>
                LET mean == stats.mean_val
                    median == stats.median_val
                IN /\ ~mean.nan /\ ~median.nan
                   /\ mean.den = Len(xs)
                   /\ mean.num = PrefixSum([f \in 1..args.max_upper |->
                                                f * table[f].Students], args.max_upper)
                   /\ 2 * Cardinality({k \in DOMAIN xs : xs[k] * median.den < median.num})
                        <= Len(xs)
                   /\ 2 * Cardinality({k \in DOMAIN xs : xs[k] * median.den > median.num})
                        <= Len(xs)

\* Everyone is above max_upper: there is nothing to take the mean of.
C9_Witness ==
    /\ pc = "reported"
    /\ stats.expanded = <<>>
    /\ stats.mean_val.nan
    /\ table[Len(table)].Details # <<>>

=============================================================================
